---- MODULE Spec2Model ----
(***************************************************************************)
(* POD Art Shop backend (src/main.py): catalog sync from the print         *)
(* provider, catalog query, checkout-session creation and the payment      *)
(* webhook that places the fulfillment order.                              *)
(*                                                                         *)
(* Conventions                                                             *)
(*  - Python None and an absent key are NoneVal.  Identifiers (product,    *)
(*    variant, session, provider-order ids) are naturals; 0 stands for the *)
(*    falsy value of the type ("" for a string id, 0 for an int).          *)
(*  - Money is counted in mills (1/1000 of a currency unit), so that       *)
(*    round(x, 2) is a real operation: it rounds to a multiple of 10.      *)
(*  - A raw variant price is given in tenths of the raw unit, so that      *)
(*    fractional raw prices such as 1234.5 exist in the model.             *)
(*  - Titles and the text filter are sequences of characters.              *)
(*  - description, tags, variants and currency of a StoreProduct are       *)
(*    copied through unchanged by the code and are left out of the docs.   *)
(***************************************************************************)
EXTENDS Integers, Sequences, FiniteSets, TLC

VARIABLES
    storeproduct,   \* db["storeproduct"]: sequence of documents, in insertion order
    order,          \* db["order"]: sequence of documents, in insertion order
    placed,         \* orders accepted by the print provider (provider-side state)
    env,            \* environment read at import: which credentials are set
    req,            \* the call being handled, with what the collaborators answered
    resp,           \* the handler's response to that call
    workers         \* in-flight sync handlers (pc and locals), for the interleaved runs

vars == <<storeproduct, order, placed, env, req, resp, workers>>

\* ------------------------------------------------------------------ values

NoneVal == -1

Truthy(x) == x # NoneVal /\ x # 0

\* Python's `a or b`
PyOr(a, b) == IF Truthy(a) THEN a ELSE b

Max(a, b) == IF a >= b THEN a ELSE b

Min(a, b) == IF a <= b THEN a ELSE b

\* round(x, 2) on a value in mills: the nearest multiple of 10, a tie going to
\* the even hundredth.  CPython rounds the binary float: a value ending in 5
\* mills is a true tie only when the float holds it exactly (a multiple of
\* 125 mills), and the input domains hold no other value ending in 5 mills.
Round2(m) ==
    LET q == m \div 10
        r == m % 10
    IN  IF r < 5 THEN q * 10
        ELSE IF r > 5 THEN (q + 1) * 10
        ELSE IF q % 2 = 0 THEN q * 10 ELSE (q + 1) * 10

\* ------------------------------------------------------- program constants

CentsThreshold == 10

CentsDivisor == 100

MaxImages == 8

CatalogLimit == 100

Untitled == <<"U", "n", "t", "i", "t", "l", "e", "d">>

\* ------------------------------------------------------ Product Normalizer

\* the id read from "id" alone
ProductIdNoFallback(p) == p.id

\* product_id = p.get("id") or p.get("_id")
ProductId(p) == PyOr(p.id, p._id)

\* title = p.get("title") or p.get("name") or "Untitled"
ProductTitle(p) ==
    IF p.title # <<>> THEN p.title
    ELSE IF p.name # <<>> THEN p.name
    ELSE Untitled

\* url = im.get("src") or im.get("preview_url") or im.get("url")
ImageUrl(im) == PyOr(im.src, PyOr(im.preview_url, im.url))

RECURSIVE CollectImages(_, _)
\* the loop over previews: keep each truthy url, in order
CollectImages(previews, i) ==
    IF i > Len(previews) THEN <<>>
    ELSE LET url == ImageUrl(previews[i])
         IN  IF Truthy(url) THEN <<url>> \o CollectImages(previews, i + 1)
             ELSE CollectImages(previews, i + 1)

\* previews = p.get("images") or p.get("files") or []; images[:8]
ProductImages(p) ==
    LET previews == IF p.images # <<>> THEN p.images ELSE p.files
        images == CollectImages(previews, 1)
    IN  SubSeq(images, 1, Min(MaxImages, Len(images)))

\* every raw price taken as already decimal
VariantPriceNoCents(t) == t * 100

\* float(price) / 100.0 if price and price > 10 else float(price), in mills,
\* of a raw price t given in tenths (the raw value is t / 10)
VariantPrice(t) ==
    IF t # 0 /\ t > CentsThreshold * 10
    THEN (t * 100) \div CentsDivisor
    ELSE t * 100

RECURSIVE VariantLoop(_, _, _)
\* for v in variants: the last variant flagged is_default gives
\* default_variant_id; price is the running maximum over every variant whose
\* price is a number, started at 0
VariantLoop(variants, i, acc) ==
    IF i > Len(variants) THEN acc
    ELSE LET v == variants[i]
             d == IF v.is_default THEN PyOr(v.id, v.variant_id)
                  ELSE acc.default_variant_id
             p == IF v.numeric THEN Max(acc.price, VariantPrice(v.price))
                  ELSE acc.price
         IN  VariantLoop(variants, i + 1, [default_variant_id |-> d, price |-> p])

\* the document built for one raw product
SyncDoc(p) ==
    LET vl == VariantLoop(p.variants, 1, [default_variant_id |-> NoneVal, price |-> 0])
    IN  [id |-> ProductId(p),
         title |-> ProductTitle(p),
         images |-> ProductImages(p),
         categories |-> p.categories,
         default_variant_id |-> vl.default_variant_id,
         price |-> Round2(vl.price),
         available |-> IF p.visible = "absent" THEN "true" ELSE p.visible]

\* -------------------------------------------------- Document Store Gateway

\* A filter mapping is modelled by its verdict on each document: hit[i] says
\* whether coll[i] matches.

\* find_one: the position of the first matching document, 0 for None
FindOne(coll, hit) ==
    LET found == {i \in 1..Len(coll) : hit[i]}
    IN  IF found = {} THEN 0
        ELSE CHOOSE i \in found : \A j \in found : i <= j

\* create_document: insert one document
CreateDocument(coll, doc) == Append(coll, doc)

RECURSIVE Matching(_, _, _, _)
\* the matching documents among coll[lo..hi], in store order (the range is
\* halved so that a long collection is scanned at logarithmic depth)
Matching(coll, hit, lo, hi) ==
    IF lo > hi THEN <<>>
    ELSE IF lo = hi THEN (IF hit[lo] THEN <<coll[lo]>> ELSE <<>>)
    ELSE LET mid == (lo + hi) \div 2
         IN  Matching(coll, hit, lo, mid) \o Matching(coll, hit, mid + 1, hi)

\* get_documents(collection, filter, limit): the first `limit` matches
GetDocuments(coll, hit, limit) ==
    LET hits == Matching(coll, hit, 1, Len(coll))
    IN  SubSeq(hits, 1, Min(limit, Len(hits)))

\* db["storeproduct"].find_one({"id": product_id})
FindProduct(store, product_id) ==
    FindOne(store, [i \in 1..Len(store) |-> store[i].id = product_id])

\* ---------------------------------------------------- Catalog Sync Service

\* get_printify_products: the configuration checks and the provider's answer
GetPrintifyProducts(e, upstream) ==
    IF ~e.shop_id THEN [status |-> 500, data |-> <<>>]
    ELSE IF ~e.token THEN [status |-> 500, data |-> <<>>]
    ELSE IF upstream.status # 200 THEN [status |-> upstream.status, data |-> <<>>]
    ELSE [status |-> 200, data |-> upstream.data]

\* update_one({"id": product_id}, {"$set": doc}) on the first document that
\* has the id now
UpdateOne(store, doc) ==
    LET at == FindProduct(store, doc.id)
    IN  IF at = 0 THEN store ELSE [store EXCEPT ![at] = doc]

\* an upsert that never looks for the stored document
UpsertAlwaysInsert(store, doc) == CreateDocument(store, doc)

\* upsert by product id: find_one, then update_one or create_document
Upsert(store, doc) ==
    LET existing == FindProduct(store, doc.id)
    IN  IF existing # 0 THEN UpdateOne(store, doc)
        ELSE CreateDocument(store, doc)

\* one pass of the loop body: skip a record without a truthy id, else build
\* the document, upsert it, count it and keep it for the response
SyncOne(p, acc) ==
    IF ~Truthy(ProductId(p)) THEN acc
    ELSE LET doc == SyncDoc(p)
         IN  [store |-> Upsert(acc.store, doc),
              synced |-> acc.synced + 1,
              saved |-> Append(acc.saved, doc)]

RECURSIVE SyncLoop(_, _, _, _)
\* for p in products, over products[lo..hi] in order (the range is halved so
\* that a long product list is folded at logarithmic depth)
SyncLoop(products, lo, hi, acc) ==
    IF lo > hi THEN acc
    ELSE IF lo = hi THEN SyncOne(products[lo], acc)
    ELSE LET mid == (lo + hi) \div 2
             left == SyncLoop(products, lo, mid, acc)
         IN  IF left.synced >= acc.synced
             THEN SyncLoop(products, mid + 1, hi, left)
             ELSE acc

\* the whole loop of one sync call on a store
SyncRun(products, store) ==
    SyncLoop(products, 1, Len(products), [store |-> store, synced |-> 0, saved |-> <<>>])

\* POST /api/printify/sync, handled without interleaving
sync_printify_products(upstream) ==
    LET got == GetPrintifyProducts(env, upstream)
        run == SyncRun(got.data, storeproduct)
    IN  /\ req' = [op |-> "sync", upstream |-> upstream]
        /\ IF got.status # 200
           THEN /\ resp' = [op |-> "sync", status |-> got.status]
                /\ UNCHANGED storeproduct
           ELSE /\ storeproduct' = run.store
                /\ resp' = [op |-> "sync", status |-> 200,
                            synced |-> run.synced, products |-> run.saved]
        /\ UNCHANGED <<order, placed, env, workers>>

\* The same handler as its steps interleave with those of other sync calls:
\* each find_one, update_one and insert is one atomic step on the store.

Idle == [pc |-> "idle", products |-> <<>>, i |-> 1, existing |-> 0,
         synced |-> 0, saved |-> <<>>]

\* products = get_printify_products()
SyncFetch(w, upstream) ==
    LET got == GetPrintifyProducts(env, upstream)
    IN  /\ workers[w].pc = "idle"
        /\ req' = [op |-> "sync", upstream |-> upstream]
        /\ IF got.status # 200
           THEN /\ workers' = [workers EXCEPT ![w].pc = "done"]
                /\ resp' = [op |-> "sync", status |-> got.status]
           ELSE /\ workers' = [workers EXCEPT ![w].pc = "next", ![w].products = got.data]
                /\ UNCHANGED resp
        /\ UNCHANGED <<storeproduct, order, placed, env>>

\* the head of one iteration, up to existing = find_one({"id": product_id})
SyncFind(w) ==
    LET me == workers[w]
    IN  /\ me.pc = "next"
        /\ me.i <= Len(me.products)
        /\ IF ~Truthy(ProductId(me.products[me.i]))
           THEN workers' = [workers EXCEPT ![w].i = me.i + 1]
           ELSE workers' = [workers EXCEPT ![w].pc = "write",
                               ![w].existing =
                                   FindProduct(storeproduct, ProductId(me.products[me.i]))]
        /\ UNCHANGED <<storeproduct, order, placed, env, req, resp>>

\* the rest of the iteration: update_one if existing else create_document
SyncWrite(w) ==
    LET me == workers[w]
        doc == SyncDoc(me.products[me.i])
    IN  /\ me.pc = "write"
        /\ storeproduct' = IF me.existing # 0 THEN UpdateOne(storeproduct, doc)
                           ELSE CreateDocument(storeproduct, doc)
        /\ workers' = [workers EXCEPT ![w].pc = "next", ![w].i = me.i + 1,
                          ![w].synced = me.synced + 1,
                          ![w].saved = Append(me.saved, doc)]
        /\ UNCHANGED <<order, placed, env, req, resp>>

\* return {"synced": synced, "products": saved_docs}
SyncReturn(w) ==
    LET me == workers[w]
    IN  /\ me.pc = "next"
        /\ me.i > Len(me.products)
        /\ workers' = [workers EXCEPT ![w].pc = "done"]
        /\ resp' = [op |-> "sync", status |-> 200,
                    synced |-> me.synced, products |-> me.saved]
        /\ UNCHANGED <<storeproduct, order, placed, env, req>>

\* --------------------------------------------------- Catalog Query Service

Lower(c) ==
    CASE c = "C" -> "c"
      [] c = "D" -> "d"
      [] c = "U" -> "u"
      [] c = "A" -> "a"
      [] OTHER -> c

\* {"$regex": q, "$options": "i"} for a q without regex operators: q occurs
\* in the title, letter case ignored
TitleMatches(q, title) ==
    \E start \in 1..(Len(title) - Len(q) + 1) :
        \A j \in 1..Len(q) : Lower(title[start + j - 1]) = Lower(q[j])

\* a filter that leaves out available
CatalogFilterAnyAvailability(d, category, q) ==
    /\ category # "" => category \in d.categories
    /\ q # <<>> => TitleMatches(q, d.title)

\* the filter built by get_catalog: available is True, and each of category
\* and q only when it is truthy
CatalogFilter(d, category, q) ==
    /\ d.available = "true"
    /\ category # "" => category \in d.categories
    /\ q # <<>> => TitleMatches(q, d.title)

\* GET /api/catalog
get_catalog(category, q) ==
    LET filt == [i \in 1..Len(storeproduct) |->
                     CatalogFilter(storeproduct[i], category, q)]
    IN  /\ req' = [op |-> "catalog", category |-> category, q |-> q]
        /\ resp' = [op |-> "catalog", status |-> 200,
                    items |-> GetDocuments(storeproduct, filt, CatalogLimit)]
        /\ UNCHANGED <<storeproduct, order, placed, env, workers>>

\* -------------------------------------------------------- Checkout Service

\* price = float(it.unit_amount or sp.get("price", 0))
ItemPrice(it, sp) == PyOr(it.unit_amount, sp.price)

RECURSIVE CheckoutItemsSkipUnknown(_, _, _, _)
\* a loop that passes over a product that is not stored
CheckoutItemsSkipUnknown(store, items, i, amount_total) ==
    IF i > Len(items) THEN [status |-> 200, amount_total |-> amount_total]
    ELSE LET it == items[i]
             sp == FindProduct(store, it.product_id)
         IN  IF sp = 0 THEN CheckoutItemsSkipUnknown(store, items, i + 1, amount_total)
             ELSE CheckoutItemsSkipUnknown(store, items, i + 1,
                      amount_total + ItemPrice(it, store[sp]) * it.quantity)

RECURSIVE CheckoutItems(_, _, _, _)
\* for it in payload.items: a product that is not stored ends the call with
\* 404, else the item's price times its quantity is added to amount_total
CheckoutItems(store, items, i, amount_total) ==
    IF i > Len(items) THEN [status |-> 200, amount_total |-> amount_total]
    ELSE LET it == items[i]
             sp == FindProduct(store, it.product_id)
         IN  IF sp = 0 THEN [status |-> 404, product_id |-> it.product_id]
             ELSE CheckoutItems(store, items, i + 1,
                                amount_total + ItemPrice(it, store[sp]) * it.quantity)

\* session.id: the payment provider issues a fresh id for each session; every
\* session created is followed by the insert of its order
NewSessionId(orders) == Len(orders) + 1

\* order_doc (user_id and currency are copied from the payload); _id is the
\* store's key for the inserted document
OrderDoc(orders, items, amount_total) ==
    [_id |-> Len(orders) + 1,
     items |-> items,
     amount_total |-> Round2(amount_total),
     status |-> "created",
     stripe_session_id |-> NewSessionId(orders),
     printify_order_id |-> NoneVal]

\* POST /api/checkout/create-session; stripe is what Session.create does
create_checkout_session(items, stripe) ==
    LET priced == CheckoutItems(storeproduct, items, 1, 0)
    IN  /\ req' = [op |-> "checkout", items |-> items,
                       stripe |-> IF env.stripe_key /\ priced.status = 200
                                  THEN stripe ELSE "not asked"]
        /\ IF ~env.stripe_key
           THEN /\ resp' = [op |-> "checkout", status |-> 500]
                /\ UNCHANGED order
           ELSE IF priced.status = 404
           THEN /\ resp' = [op |-> "checkout", status |-> 404,
                            product_id |-> priced.product_id]
                /\ UNCHANGED order
           ELSE IF stripe # "created"
           THEN /\ resp' = [op |-> "checkout", status |-> 500]
                /\ UNCHANGED order
           ELSE /\ order' = CreateDocument(order, OrderDoc(order, items, priced.amount_total))
                /\ resp' = [op |-> "checkout", status |-> 200, id |-> NewSessionId(order)]
        /\ UNCHANGED <<storeproduct, placed, env, workers>>

\* --------------------------------------------------- Fulfillment Reconciler

\* a lookup that falls back to the first order when none has the session id
FindOrderOrFirst(orders, session_id) ==
    LET k == FindOne(orders,
                     [i \in 1..Len(orders) |-> orders[i].stripe_session_id = session_id])
    IN  IF k = 0 /\ Len(orders) > 0 THEN 1 ELSE k

\* db["order"].find_one({"stripe_session_id": session_id})
FindOrder(orders, session_id) ==
    FindOne(orders, [i \in 1..Len(orders) |-> orders[i].stripe_session_id = session_id])

\* one line item; building it raises when the item has no variant_id and its
\* product is not stored (find_one gives None, and None has no .get)
LineItemRaises(store, it) ==
    ~Truthy(it.variant_id) /\ FindProduct(store, it.product_id) = 0

\* no call was made to a collaborator, so it gave no answer
NotAsked == [status |-> 0, json |-> FALSE]

\* a placement that does not look at the provider's status
PlaceOrderAnyStatus(e, store, o, printify) ==
    IF ~e.shop_id THEN [raises |-> TRUE, posted |-> FALSE, accepted |-> FALSE]
    ELSE IF \E i \in 1..Len(o.items) : LineItemRaises(store, o.items[i])
    THEN [raises |-> TRUE, posted |-> FALSE, accepted |-> FALSE]
    ELSE IF ~e.token THEN [raises |-> TRUE, posted |-> FALSE, accepted |-> FALSE]
    ELSE IF ~printify.json
    THEN [raises |-> TRUE, posted |-> TRUE, accepted |-> printify.status \in {200, 201}]
    ELSE [raises |-> FALSE, posted |-> TRUE, accepted |-> printify.status \in {200, 201}]

\* _create_printify_order_from_order, given the provider's answer to the
\* POST: whether it raises, whether the POST was sent, and whether the
\* provider took the order
PlaceOrder(e, store, o, printify) ==
    IF ~e.shop_id THEN [raises |-> TRUE, posted |-> FALSE, accepted |-> FALSE]
    ELSE IF \E i \in 1..Len(o.items) : LineItemRaises(store, o.items[i])
    THEN [raises |-> TRUE, posted |-> FALSE, accepted |-> FALSE]
    ELSE IF ~e.token THEN [raises |-> TRUE, posted |-> FALSE, accepted |-> FALSE]
    ELSE IF printify.status \notin {200, 201}
    THEN [raises |-> TRUE, posted |-> TRUE, accepted |-> FALSE]
    ELSE IF ~printify.json THEN [raises |-> TRUE, posted |-> TRUE, accepted |-> TRUE]
    ELSE [raises |-> FALSE, posted |-> TRUE, accepted |-> TRUE]

\* the order the provider holds once it has taken it (of the payload, only
\* external_id is kept: nothing reads the rest back)
ProviderOrder(o) == [external_id |-> o._id]

\* resp.get("id"): the provider numbers the orders it takes
NewProviderOrderId(taken) == Len(taken) + 1

\* an except branch that puts the order back to created
OrderAfterPlacementReset(o, placement, provider_id) ==
    IF placement.raises THEN [o EXCEPT !.status = "created"]
    ELSE [o EXCEPT !.printify_order_id = provider_id, !.status = "paid"]

\* the try/except of stripe_webhook on the matched order: printify_order_id
\* is set inside the call, status after it
OrderAfterPlacement(o, placement, provider_id) ==
    IF placement.raises THEN [o EXCEPT !.status = "failed"]
    ELSE [o EXCEPT !.printify_order_id = provider_id, !.status = "paid"]

\* POST /api/stripe/webhook; event carries type and data.object.id, printify
\* is the provider's answer should the handler post an order
stripe_webhook(event, printify) ==
    LET k == IF event.type = "checkout.session.completed"
             THEN FindOrder(order, event.session) ELSE 0
    IN  /\ resp' = [op |-> "webhook", status |-> 200, received |-> TRUE]
        /\ IF k = 0
           THEN /\ req' = [op |-> "webhook", event |-> event, printify |-> NotAsked]
                /\ UNCHANGED <<order, placed>>
           ELSE LET placement == PlaceOrder(env, storeproduct, order[k], printify)
                IN  /\ req' = [op |-> "webhook", event |-> event,
                               printify |-> IF placement.posted THEN printify ELSE NotAsked]
                    /\ placed' = IF placement.accepted
                                 THEN Append(placed, ProviderOrder(order[k]))
                                 ELSE placed
                    /\ order' = [order EXCEPT ![k] =
                                    OrderAfterPlacement(order[k], placement,
                                                        NewProviderOrderId(placed))]
        /\ UNCHANGED <<storeproduct, env, workers>>

\* ------------------------------------------------------------ process start

\* the module is imported: the credentials are read from the environment; the
\* document store and the provider keep what they hold
Restart(e) ==
    /\ env' = e
    /\ req' = [op |-> "restart"]
    /\ resp' = [op |-> "none"]
    /\ UNCHANGED <<storeproduct, order, placed, workers>>

\* ------------------------------------------------------------ input domains

MaxVariants == 2

MaxUpstream == 2

AllSet == [stripe_key |-> TRUE, shop_id |-> TRUE, token |-> TRUE]

NoWorkers == <<>>

Cat == <<"C", "a", "t">>

Dog == <<"D", "o", "g">>

SeqsUpTo(S, n) == UNION {[1..k -> S] : k \in 0..n}

\* raw prices in tenths: 0, 9.5, 10 (the threshold), 10.1, 12.5 and 37.5 (the
\* ties 0.125 and 0.375), 1234.4, 1235.6
VariantPrices == {0, 95, 100, 101, 125, 375, 12344, 12356}

NormVariants ==
    {[is_default |-> d, id |-> i, variant_id |-> 8, numeric |-> TRUE, price |-> t] :
        d \in BOOLEAN, i \in {NoneVal, 7}, t \in VariantPrices}
    \cup {[is_default |-> d, id |-> 7, variant_id |-> 8, numeric |-> FALSE, price |-> 0] :
        d \in BOOLEAN}

Image(n) == [src |-> n, preview_url |-> NoneVal, url |-> NoneVal]

ManyImages ==
    [i \in 1..(MaxImages + 1) |->
        IF i = 2 THEN [src |-> NoneVal, preview_url |-> 0, url |-> 12]
        ELSE IF i = 3 THEN [src |-> 0, preview_url |-> NoneVal, url |-> NoneVal]
        ELSE Image(10 + i)]

\* raw products for the normalizer: every variant list up to MaxVariants, and
\* some records that exercise the fallbacks of the other fields
NormProducts ==
    {[id |-> 1, _id |-> NoneVal, title |-> Cat, name |-> <<>>, images |-> <<>>,
      files |-> <<>>, variants |-> vs, visible |-> "absent", categories |-> {}] :
        vs \in SeqsUpTo(NormVariants, MaxVariants)}
    \cup {[id |-> a, _id |-> 2, title |-> t, name |-> n, images |-> im,
           files |-> <<Image(5)>>, variants |-> <<>>, visible |-> v,
           categories |-> {"art"}] :
        a \in {NoneVal, 0, 1}, t \in {<<>>, Cat}, n \in {<<>>, Dog},
        im \in {<<>>, ManyImages}, v \in {"absent", "true", "false", "null"}}

DefaultVariant ==
    [is_default |-> TRUE, id |-> 7, variant_id |-> NoneVal, numeric |-> TRUE, price |-> 15000]

\* raw products for the sync runs: with and without id and _id, two versions
\* of each product
SyncProduct(a, b, v) ==
    [id |-> a, _id |-> b, title |-> Cat, name |-> <<>>, images |-> <<>>,
     files |-> <<>>, variants |-> <<DefaultVariant>>, visible |-> v,
     categories |-> {"art"}]

SyncProducts ==
    {SyncProduct(a, b, "absent") : a \in {NoneVal, 0, 1}, b \in {NoneVal, 2}}
    \cup {SyncProduct(1, NoneVal, "false"), SyncProduct(NoneVal, 2, "false")}

BulkSize == CatalogLimit + 3

\* a large catalogue: more available products than the catalog query returns
BulkProducts ==
    [i \in 1..BulkSize |->
        [id |-> 100 + i, _id |-> NoneVal,
         title |-> IF i % 2 = 0 THEN Cat ELSE <<>>, name |-> Dog,
         images |-> <<>>, files |-> <<>>, variants |-> <<>>,
         visible |-> IF i = 1 THEN "null" ELSE IF i = 2 THEN "false" ELSE "absent",
         categories |-> IF i % 3 = 0 THEN {"art"} ELSE {}]]

\* what the provider answers to the product listing: a list, or an error
Ok(data) == [status |-> 200, data |-> data]

ProviderError == [status |-> 503, data |-> <<>>]

Upstreams == {Ok(data) : data \in SeqsUpTo(SyncProducts, MaxUpstream)} \cup {ProviderError}

CatalogUpstreams == {Ok(<<p>>) : p \in SyncProducts} \cup {Ok(BulkProducts)}

Categories == {"", "art", "mugs"}

Queries == {<<>>, <<"c", "A">>, <<"o">>}

MaxOrders == 2

MaxItems == 2

MaxPlaced == 2

NonEmptySeqsUpTo(S, n) == UNION {[1..k -> S] : k \in 1..n}

\* the credentials the fulfillment path reads, each missing in turn
PrintifyEnvs ==
    {AllSet, [AllSet EXCEPT !.shop_id = FALSE], [AllSet EXCEPT !.token = FALSE]}

\* the credential the checkout path reads, set or not
StripeEnvs == {AllSet, [AllSet EXCEPT !.stripe_key = FALSE]}

PlainVariant ==
    [is_default |-> FALSE, id |-> 7, variant_id |-> NoneVal, numeric |-> TRUE, price |-> 20000]

\* product 1 as first listed (15.00, default variant 7) and as relisted
\* (20.00, no default variant, hidden), and product 2 (15.00)
Listed == SyncProduct(1, NoneVal, "absent")

Relisted == [SyncProduct(1, NoneVal, "false") EXCEPT !.variants = <<PlainVariant>>]

Item(p, v, n, u) == [product_id |-> p, variant_id |-> v, quantity |-> n, unit_amount |-> u]

\* 9 is the id of no product
PlainItems == {Item(1, NoneVal, 1, NoneVal), Item(9, NoneVal, 1, NoneVal)}

ShopRequests == {<<it>> : it \in PlainItems}

BasicRequests == NonEmptySeqsUpTo(PlainItems, MaxItems)

\* product 2, at 20.00
Second == [SyncProduct(NoneVal, 2, "absent") EXCEPT !.variants = <<PlainVariant>>]

\* items with a unit amount (in mills) absent, 0 and 12.50, one and two
\* apiece, of product 1; and one of product 2 at its stored price
PricedItems ==
    {Item(1, NoneVal, n, u) : n \in {1, 2}, u \in {NoneVal, 0, 12500}}
    \cup {Item(2, NoneVal, 1, NoneVal)}

PricedRequests == NonEmptySeqsUpTo(PricedItems, MaxItems)

StripeOutcomes == {"created", "error"}

\* completed sessions: without an id, of each order there may be, and of no
\* order; and an event of another type
Events ==
    {[type |-> "checkout.session.completed", session |-> sid] :
        sid \in {NoneVal} \cup 1..(MaxOrders + 1)}
    \cup {[type |-> "payment_intent.succeeded", session |-> 1]}

\* what the provider answers to the order: taken (200 or 201), refused, or
\* taken with a body that is not JSON
PrintifyAnswers ==
    {[status |-> 200, json |-> TRUE], [status |-> 201, json |-> TRUE],
     [status |-> 422, json |-> TRUE], [status |-> 200, json |-> FALSE]}

\* ------------------------------------------- the normalizer, one call each

InitNorm ==
    /\ storeproduct = <<>>
    /\ order = <<>>
    /\ placed = <<>>
    /\ env = AllSet
    /\ req \in {[op |-> "sync", upstream |-> Ok(<<p>>)] : p \in NormProducts}
    /\ resp = [op |-> "pending"]
    /\ workers = NoWorkers

HandleSync ==
    /\ resp.op = "pending"
    /\ sync_printify_products(req.upstream)

NextNorm == HandleSync

SpecNorm == InitNorm /\ [][NextNorm]_vars

\* ---------------------------------------------------- sync calls, in turn

InitSync ==
    /\ storeproduct = <<>>
    /\ order = <<>>
    /\ placed = <<>>
    /\ env = AllSet
    /\ req = [op |-> "none"]
    /\ resp = [op |-> "none"]
    /\ workers = NoWorkers

Sync == \E upstream \in Upstreams : sync_printify_products(upstream)

NextSync == Sync

SpecSync == InitSync /\ [][NextSync]_vars

\* ------------------------- sync and catalog calls, with a large catalogue

CatalogSync == \E upstream \in CatalogUpstreams : sync_printify_products(upstream)

Catalog == \E category \in Categories, q \in Queries : get_catalog(category, q)

NextCatalog == CatalogSync \/ Catalog

SpecCatalog == InitSync /\ [][NextCatalog]_vars

\* ------------------------- the shop: sync, checkout, webhook and restarts

Init ==
    /\ storeproduct = <<>>
    /\ order = <<>>
    /\ placed = <<>>
    /\ env \in PrintifyEnvs
    /\ req = [op |-> "none"]
    /\ resp = [op |-> "none"]
    /\ workers = NoWorkers

ShopSync == sync_printify_products(Ok(<<Listed>>))

ShopCheckout ==
    \E items \in ShopRequests, stripe \in StripeOutcomes :
        /\ create_checkout_session(items, stripe)
        /\ Len(order') <= MaxOrders

Webhook ==
    \E event \in Events, printify \in PrintifyAnswers :
        /\ stripe_webhook(event, printify)
        /\ Len(placed') <= MaxPlaced

Reconfigure == \E e \in PrintifyEnvs : Restart(e)

Next == ShopSync \/ ShopCheckout \/ Webhook \/ Reconfigure

Spec == Init /\ [][Next]_vars

\* --------------------------------- checkout calls, known and unknown products

InitCheckout ==
    /\ storeproduct = <<>>
    /\ order = <<>>
    /\ placed = <<>>
    /\ env \in StripeEnvs
    /\ req = [op |-> "none"]
    /\ resp = [op |-> "none"]
    /\ workers = NoWorkers

CheckoutSync == \E p \in {Listed, Relisted} : sync_printify_products(Ok(<<p>>))

Checkout ==
    \E items \in BasicRequests, stripe \in StripeOutcomes :
        /\ create_checkout_session(items, stripe)
        /\ Len(order') <= MaxOrders

CheckoutReconfigure == \E e \in StripeEnvs : Restart(e)

NextCheckout == CheckoutSync \/ Checkout \/ CheckoutReconfigure

SpecCheckout == InitCheckout /\ [][NextCheckout]_vars

\* ------------------------------------------- checkout calls, priced items

PricedSync == sync_printify_products(Ok(<<Listed, Second>>))

PricedCheckout ==
    \E items \in PricedRequests :
        /\ create_checkout_session(items, "created")
        /\ Len(order') <= MaxOrders

NextPricing == PricedSync \/ PricedCheckout

SpecPricing == InitSync /\ [][NextPricing]_vars

\* ------------------------------------------------- sync calls, interleaved

NumSyncs == 2

ConcurrentUpstreams ==
    {Ok(data) : data \in NonEmptySeqsUpTo({Listed, Relisted, Second}, MaxUpstream)}

InitConcurrent ==
    /\ storeproduct = <<>>
    /\ order = <<>>
    /\ placed = <<>>
    /\ env = AllSet
    /\ req = [op |-> "none"]
    /\ resp = [op |-> "none"]
    /\ workers = [w \in 1..NumSyncs |-> Idle]

Fetch == \E w \in 1..NumSyncs, upstream \in ConcurrentUpstreams : SyncFetch(w, upstream)

Find == \E w \in 1..NumSyncs : SyncFind(w)

Write == \E w \in 1..NumSyncs : SyncWrite(w)

Return == \E w \in 1..NumSyncs : SyncReturn(w)

NextConcurrent == Fetch \/ Find \/ Write \/ Return

SpecConcurrent == InitConcurrent /\ [][NextConcurrent]_vars

\* ------------------------------------------------------------------ claims

NoDuplicateIds(store) ==
    \A i, j \in 1..Len(store) : store[i].id = store[j].id => i = j

SyncSucceeded == req.op = "sync" /\ resp.op = "sync" /\ resp.status = 200

\* C5: sync is idempotent.  In every state reached by a successful sync call,
\* a second run of sync on the same upstream data leaves the storeproduct
\* collection as the first run left it (the same documents with the same
\* field values, in the same places), reports the same result, and no id is
\* stored twice.
C5_SyncIdempotent ==
    SyncSucceeded =>
        LET again == SyncRun(req.upstream.data, storeproduct)
        IN  /\ again.store = storeproduct
            /\ again.synced = resp.synced
            /\ again.saved = resp.products
            /\ NoDuplicateIds(storeproduct)

\* the first run both inserted and overwrote: two records of one id with
\* different field values, and another product besides
C5_Witness ==
    /\ SyncSucceeded
    /\ resp.synced = 2
    /\ resp.products[1].id = resp.products[2].id
    /\ resp.products[1] # resp.products[2]
    /\ Len(storeproduct) = 2

\* C7: a catalog query, whatever its category and text filters and whatever
\* the syncs stored, returns only products whose available is true, and at
\* most 100 of them.
C7_CatalogOnlyAvailable ==
    (req.op = "catalog" /\ resp.op = "catalog") =>
        /\ \A i \in 1..Len(resp.items) : resp.items[i].available = "true"
        /\ Len(resp.items) <= 100

\* more than 100 available products are stored, beside products whose
\* available is false and null, and the query returned exactly 100
C7_Witness ==
    /\ req.op = "catalog" /\ resp.op = "catalog"
    /\ Len(resp.items) = 100
    /\ Cardinality({i \in 1..Len(storeproduct) : storeproduct[i].available = "true"}) > 100
    /\ \E i \in 1..Len(storeproduct) : storeproduct[i].available = "false"
    /\ \E i \in 1..Len(storeproduct) : storeproduct[i].available = "null"

\* a record carries an id when its id or its _id holds one (an id is a
\* non-empty string: None and the empty value are no id)
CarriesId(p) == p.id \notin {NoneVal, 0} \/ p._id \notin {NoneVal, 0}

CarriedId(p) == IF p.id \notin {NoneVal, 0} THEN p.id ELSE p._id

StoredIds(store) == {store[k].id : k \in 1..Len(store)}

\* C8: a successful sync skips each record that has neither id nor _id and
\* writes nothing for it: synced and the length of the returned list both
\* equal the number of records carrying an id or _id, every such record is
\* in the store under its id afterwards, and the call adds exactly one
\* document for each carried id that was not stored before.
C8_SkipsRecordsWithoutId ==
    [][(req'.op = "sync" /\ resp'.op = "sync" /\ resp'.status = 200) =>
        LET data == req'.upstream.data
            carrying == {i \in 1..Len(data) : CarriesId(data[i])}
            carried == {CarriedId(data[i]) : i \in carrying}
        IN  /\ resp'.synced = Cardinality(carrying)
            /\ Len(resp'.products) = Cardinality(carrying)
            /\ StoredIds(storeproduct') = StoredIds(storeproduct) \cup carried
            /\ Len(storeproduct') =
                   Len(storeproduct) + Cardinality(carried \ StoredIds(storeproduct))
       ]_vars

\* a list with a record lacking both fields, before a record that has only
\* _id: one skipped, one stored
C8_Witness ==
    /\ SyncSucceeded
    /\ Len(req.upstream.data) = 2
    /\ ~CarriesId(req.upstream.data[1])
    /\ req.upstream.data[2].id = 0
    /\ resp.synced = 1
    /\ \E k \in 1..Len(storeproduct) : storeproduct[k].id = req.upstream.data[2]._id

\* the price of one variant as the specification words it, in mills, of a
\* raw price in tenths: price / 100 if price > 10 else price
StatedVariantPrice(t) == IF t > 100 THEN t ELSE t * 100

SetMax(S) == CHOOSE m \in S : \A x \in S : x <= m

\* the maximum of the stated prices over the variants at positions `at` that
\* have a numeric price, 0 when there is none above 0
StatedMax(variants, at) ==
    SetMax({0} \cup {StatedVariantPrice(variants[i].price) :
                        i \in {j \in at : variants[j].numeric}})

Normalized ==
    /\ req.op = "sync" /\ resp.op = "sync" /\ resp.status = 200
    /\ Len(req.upstream.data) = 1 /\ Len(resp.products) = 1

\* C9 as stated: the normalized price comes from the variants marked default
\* when at least one is marked, and from all variants only when none is.
C9_PriceFromDefaultVariants ==
    Normalized =>
        LET variants == req.upstream.data[1].variants
            marked == {i \in 1..Len(variants) : variants[i].is_default}
            selected == IF marked # {} THEN marked ELSE 1..Len(variants)
        IN  resp.products[1].price = Round2(StatedMax(variants, selected))

\* C9 as amended: the normalized price is the maximum over all variants with
\* a numeric price, marked default or not, of (price / 100 if price > 10 else
\* price), and 0 when no variant has a numeric price above 0, rounded to 2
\* decimals.
C9_PriceFromAllVariants ==
    Normalized =>
        LET variants == req.upstream.data[1].variants
        IN  /\ resp.products[1].price = Round2(StatedMax(variants, 1..Len(variants)))
            /\ storeproduct[1].price = resp.products[1].price

\* a product with a default variant and a dearer variant that is not the
\* default: the stored price is the dearer one's, rounded
C9_Witness ==
    /\ Normalized
    /\ LET variants == req.upstream.data[1].variants
       IN  /\ Len(variants) = 2
           /\ variants[1].is_default /\ variants[1].numeric /\ variants[1].price = 101
           /\ ~variants[2].is_default /\ variants[2].numeric /\ variants[2].price = 12356
    /\ storeproduct[1].price = 12360

Completed(event) == event.type = "checkout.session.completed"

\* the orders a session id names
OrdersOf(orders, session_id) ==
    {k \in 1..Len(orders) : orders[k].stripe_session_id = session_id}

\* C1: a createSession call, with the payment provider configured, in which
\* some item, at any position, names a product that is not stored, fails
\* with 404 and leaves the order collection as it was.
C1_UnknownProductNotFound ==
    [][(/\ req'.op = "checkout"
        /\ env.stripe_key
        /\ \E i \in 1..Len(req'.items) :
               req'.items[i].product_id \notin StoredIds(storeproduct))
       => (resp'.op = "checkout" /\ resp'.status = 404 /\ order' = order)
      ]_vars

\* an order is stored, and a call whose first item is known and whose second
\* is not was answered 404
C1_Witness ==
    /\ req.op = "checkout" /\ resp.op = "checkout" /\ resp.status = 404
    /\ Len(req.items) = 2
    /\ req.items[1].product_id \in StoredIds(storeproduct)
    /\ req.items[2].product_id \notin StoredIds(storeproduct)
    /\ Len(order) >= 1

\* the unit price C2 states: the caller's unit_amount whenever one is
\* supplied, zero included, else the stored product's price
StatedUnitPrice(store, it) ==
    IF it.unit_amount # NoneVal THEN it.unit_amount
    ELSE (CHOOSE d \in {store[k] : k \in 1..Len(store)} : d.id = it.product_id).price

RECURSIVE StatedTotal(_, _, _)
StatedTotal(store, items, i) ==
    IF i > Len(items) THEN 0
    ELSE StatedUnitPrice(store, items[i]) * items[i].quantity
         + StatedTotal(store, items, i + 1)

\* C2: after every successful createSession call, the persisted order's
\* amount_total is the sum over the requested items of the stated unit price
\* times the quantity.
C2_AmountHonoursEverySuppliedPrice ==
    (req.op = "checkout" /\ resp.op = "checkout" /\ resp.status = 200) =>
        /\ order[Len(order)].items = req.items
        /\ order[Len(order)].amount_total = StatedTotal(storeproduct, req.items, 1)

\* placing the fulfillment order fails: a credential is missing, the provider
\* answers neither 200 nor 201 or with a body that cannot be read, or an item
\* without variant_id names a product that is not stored
PlacementFails(e, store, o, printify) ==
    \/ ~e.shop_id
    \/ ~e.token
    \/ printify.status \notin {200, 201}
    \/ ~printify.json
    \/ \E i \in 1..Len(o.items) :
           /\ o.items[i].variant_id \in {NoneVal, 0}
           /\ o.items[i].product_id \notin StoredIds(store)

\* C3: when a checkout.session.completed event names a stored order and
\* placing the fulfillment order fails, then after the call that order's
\* status is failed and the response is {received: true}.
C3_FailedPlacementMarksFailed ==
    [][(req'.op = "webhook" /\ Completed(req'.event)) =>
        \A k \in OrdersOf(order, req'.event.session) :
            PlacementFails(env, storeproduct, order[k], req'.printify) =>
                /\ order'[k].status = "failed"
                /\ resp' = [op |-> "webhook", status |-> 200, received |-> TRUE]
      ]_vars

\* the provider refused the order of a matched session, and the order is
\* failed
C3_Witness ==
    /\ req.op = "webhook" /\ Completed(req.event)
    /\ req.printify.status = 422
    /\ resp.op = "webhook" /\ resp.received
    /\ \E k \in OrdersOf(order, req.event.session) : order[k].status = "failed"

\* C4: a checkout.session.completed event whose session id is that of no
\* stored order is answered {received: true}, changes no order and places
\* no order with the provider.
C4_UnmatchedEventChangesNothing ==
    [][(/\ req'.op = "webhook" /\ Completed(req'.event)
        /\ OrdersOf(order, req'.event.session) = {})
       => (/\ resp' = [op |-> "webhook", status |-> 200, received |-> TRUE]
           /\ order' = order
           /\ placed' = placed)
      ]_vars

\* orders are stored, one of them already paid, and the event named none
C4_Witness ==
    /\ req.op = "webhook" /\ Completed(req.event)
    /\ req.event.session # NoneVal
    /\ OrdersOf(order, req.event.session) = {}
    /\ resp.op = "webhook" /\ resp.received
    /\ \E k \in 1..Len(order) : order[k].status = "paid"

\* C6 as stated: once an order is paid or failed, no later step changes its
\* status or its printify_order_id or places another provider order for it.
C6_MutatedExactlyOnce ==
    [][\A k \in 1..Len(order) :
           order[k].status \in {"paid", "failed"} =>
               /\ order'[k].status = order[k].status
               /\ order'[k].printify_order_id = order[k].printify_order_id
               /\ \A n \in (Len(placed) + 1)..Len(placed') :
                      placed'[n].external_id # order[k]._id
      ]_vars

\* C6 as amended: no order is ever removed; an order's status changes only
\* in the handling of a checkout.session.completed event naming its session,
\* and only to paid or failed, so it never returns to created; its
\* printify_order_id changes only when that handling places an order for it
\* with the provider and ends in paid; and nothing else of the order changes.
\* Every delivery of the event runs the placement again.
C6_NeverBackToCreated ==
    [][/\ Len(order') >= Len(order)
       /\ \A k \in 1..Len(order) :
              /\ order'[k]._id = order[k]._id
              /\ order'[k].items = order[k].items
              /\ order'[k].amount_total = order[k].amount_total
              /\ order'[k].stripe_session_id = order[k].stripe_session_id
              /\ order[k].status # "created" => order'[k].status # "created"
              /\ order'[k].status # order[k].status =>
                     /\ order'[k].status \in {"paid", "failed"}
                     /\ req'.op = "webhook" /\ Completed(req'.event)
                     /\ req'.event.session = order[k].stripe_session_id
              /\ order'[k].printify_order_id # order[k].printify_order_id =>
                     /\ order'[k].status = "paid"
                     /\ Len(placed') = Len(placed) + 1
                     /\ placed'[Len(placed')].external_id = order[k]._id
      ]_vars

\* the same event was delivered twice: the provider holds two orders for one
\* order of the shop, which was paid, given the second provider id, and is
\* now failed
C6_Witness ==
    /\ Len(placed) = 2
    /\ placed[1].external_id = placed[2].external_id
    /\ \E k \in 1..Len(order) :
           /\ order[k]._id = placed[1].external_id
           /\ order[k].printify_order_id = 2
           /\ order[k].status = "failed"

\* C10: under every interleaving of concurrently running sync calls, the
\* storeproduct collection never holds two documents with the same id.
C10_UniqueIdUnderInterleaving == NoDuplicateIds(storeproduct)

====
